---- MODULE Spec2Model ----
(***************************************************************************)
(* Model of the weight quantization and binary serialization engine of the *)
(* TinyAI model converters (tools/conversion).  The three front ends       *)
(* (pytorch, tensorflow, onnx) repeat the same _prune_weights,             *)
(* _apply_weight_clustering, _quantize_weights and _save_model code; the   *)
(* model follows pytorch/pytorch_converter.py.                             *)
(*                                                                         *)
(* Numbers.  A tensor is [name, shape, vals, den]: element i has the real  *)
(* value vals[i] / den.  Quotients value / scale are computed exactly; a   *)
(* quotient that lies exactly halfway between two integers is where the    *)
(* float32/float64 arithmetic of numpy decides the result of np.round, so  *)
(* its rounding direction is the platform parameter platform.tie.          *)
(* The conversion of an out-of-range float to uint8 (astype(np.uint8)) is  *)
(* undefined in C; platform.cast chooses between the outcomes builds       *)
(* produce (wrap modulo 256, saturate).                                    *)
(*                                                                         *)
(* Bytes.  A byte of the blob is a record [k, v, d, i].  k = "u8": the     *)
(* integer byte v.  k = "f32" / "f16": byte i of the IEEE encoding of the  *)
(* real number v / d in that format (kept symbolic).  struct.pack uses the *)
(* native byte order; the model is little-endian.                          *)
(*                                                                         *)
(* Four specifications: Spec is one run of convert(); QSpec, PSpec and     *)
(* CSpec are one direct call of _quantize_weights, _prune_weights and      *)
(* _apply_weight_clustering over all small tensors.                        *)
(***************************************************************************)
EXTENDS Integers, Sequences, FiniteSets, TLC

VARIABLES
    platform,           \* [cast, tie]: the build's float behaviour
    config,             \* converter fields set by __init__
    params,             \* model.named_parameters(): extracted tensors, in order
    pc,                 \* position of convert()
    idx,                \* loop position inside _process_weights / _save_model
    processed_weights,  \* dict owner -> dict role -> weight_info, in insertion order
    tinyai_model,       \* the dict built by _create_tinyai_model
    weight_data,        \* the bytearray of _save_model
    weight_offsets,     \* the offset index of _save_model, in insertion order
    files,              \* destination: [json, bin], each "absent" or its content
    result,             \* what convert() returned / raised
    log,                \* stage events of this run, in order (observer)
    weights,            \* argument of a direct _quantize_weights call
    bits,               \* argument of a direct _quantize_weights call
    qresult,            \* outcome of the direct _quantize_weights call
    threshold,          \* argument of a direct _prune_weights call
    presult,            \* outcome of the direct _prune_weights call
    num_clusters,       \* argument of a direct _apply_weight_clustering call
    cresult,            \* outcome of the direct _apply_weight_clustering call
    environ,            \* os.environ: the TINYAI_* variables, as text
    ENV_SETTINGS,       \* config.ENV_SETTINGS
    argv,               \* the options of the command line, as text
    args,               \* the namespace parse_args() returned
    settings            \* the settings dict of main()

vars == <<platform, config, params, pc, idx, processed_weights, tinyai_model,
          weight_data, weight_offsets, files, result, log, weights, bits, qresult,
          threshold, presult, num_clusters, cresult,
          environ, ENV_SETTINGS, argv, args, settings>>

pipeVars == <<config, params, pc, idx, processed_weights, tinyai_model,
              weight_data, weight_offsets, files, result, log>>

quantVars == <<weights, bits, qresult>>

pruneVars == <<threshold, presult>>

clusterVars == <<num_clusters, cresult>>

\* the variables of the direct calls
callVars == <<quantVars, pruneVars, clusterVars>>

\* the variables of the command-line tool
toolVars == <<environ, ENV_SETTINGS, argv, args, settings>>

-----------------------------------------------------------------------------
(* Bounds of the model *)

\* largest number of elements of a generated tensor
MaxLen == 3
\* generated element values are -MaxVal .. MaxVal, in units of 1 / den
MaxVal == 2
\* largest number of tensors of a model in the pipeline specification
MaxParams == 2

\* denominators of generated tensors: with 2 the values are halves (-1.0, -0.5, ...)
ValueDens == {2}

-----------------------------------------------------------------------------
(* Arithmetic *)

Abs(x) == IF x < 0 THEN -x ELSE x

RECURSIVE GCD(_, _)
GCD(a, b) == IF b = 0 THEN Abs(a) ELSE GCD(b, a % b)

\* the reduced fraction num / den, den > 0
Frac(num, den) ==
    LET g == GCD(Abs(num), den)
    IN  IF g = 0 THEN <<0, 1>> ELSE <<num \div g, den \div g>>

RECURSIVE Fact(_)
Fact(n) == IF n <= 1 THEN 1 ELSE n * Fact(n - 1)

RECURSIVE SeqSum(_)
SeqSum(s) == IF s = <<>> THEN 0 ELSE Head(s) + SeqSum(Tail(s))

RECURSIVE SeqProd(_)
SeqProd(s) == IF s = <<>> THEN 1 ELSE Head(s) * SeqProd(Tail(s))

RECURSIVE Concat(_)
Concat(ss) == IF ss = <<>> THEN <<>> ELSE Head(ss) \o Concat(Tail(ss))

Range(s) == {s[i] : i \in DOMAIN s}

SetMax(S) == CHOOSE x \in S : \A y \in S : y <= x

SetMin(S) == CHOOSE x \in S : \A y \in S : x <= y

-----------------------------------------------------------------------------
(* numpy helpers *)

\* weights.size
Size(w) == SeqProd(w.shape)

\* np.round(num / dn) for dn > 0.  Away from a tie this is the nearest integer.
\* At an exact tie: "even" is np.round of the exact quotient (half to even);
\* "toward" / "away" are the results when the floating-point quotient falls
\* just short of / just beyond the tie (1.0 / float32(2/15) = 7.4999995).
np_round(num, dn, tie) ==
    LET q == num \div dn
        r == num % dn
    IN  IF 2 * r < dn THEN q
        ELSE IF 2 * r > dn THEN q + 1
        ELSE CASE tie = "even"   -> IF q % 2 = 0 THEN q ELSE q + 1
               [] tie = "toward" -> IF num >= 0 THEN q ELSE q + 1
               [] tie = "away"   -> IF num >= 0 THEN q + 1 ELSE q

\* np.clip(x, lo, hi)
np_clip(x, lo, hi) == IF x < lo THEN lo ELSE IF x > hi THEN hi ELSE x

\* ndarray.astype(np.uint8) of an integral float: exact inside 0..255, outside it
\* the C conversion is undefined and gives what the build gives.
astype_uint8(x, cast) ==
    IF x \in 0..255 THEN x
    ELSE IF cast = "wrap" THEN x % 256
    ELSE np_clip(x, 0, 255)

\* int(a[j]) for an array of the given shape holding the flat values q; j is
\* 0-based, negative j counts from the end of the first axis.  a[j] indexes the
\* FIRST axis: for rank >= 2 it is a sub-array, and int() of a sub-array with
\* more than one element raises TypeError.
int_item(q, shape, j) ==
    IF Len(shape) = 0 THEN [err |-> "IndexError", val |-> 0]
    ELSE LET d0 == shape[1]
             jj == IF j < 0 THEN d0 + j ELSE j
         IN  IF jj < 0 \/ jj >= d0 THEN [err |-> "IndexError", val |-> 0]
             ELSE IF SeqProd(Tail(shape)) # 1 THEN [err |-> "TypeError", val |-> 0]
             ELSE [err |-> "none", val |-> q[jj + 1]]

-----------------------------------------------------------------------------
(* _quantize_weights *)

\* data_range of lines 338-340 as a fraction <<num, den>>; w is not empty
data_range(w) ==
    LET hi == SetMax(Range(w.vals))
        lo == SetMin(Range(w.vals))
    IN  IF hi - lo = 0 THEN <<1, 1>> ELSE <<hi - lo, w.den>>

\* mutant: the quotient inverted, levels / data_range
scale_of_inverted(w, levels) ==
    LET dr == data_range(w) IN Frac(dr[2] * levels, dr[1])

\* scale = data_range / levels, as a reduced fraction
scale_of(w, levels) ==
    LET dr == data_range(w) IN Frac(dr[1], dr[2] * levels)

\* mutant: an adaptive zero_point = round(-min / scale) instead of the fixed 0
level_of_adaptive(w, levels, i, tie) ==
    LET dr == data_range(w)
        lo == SetMin(Range(w.vals))
    IN  np_round(w.vals[i] * levels * dr[2], w.den * dr[1], tie)
          + np_round((-lo) * levels * dr[2], w.den * dr[1], tie)

\* np.round(weights / scale + zero_point), element i
level_of(w, levels, i, tie) ==
    LET dr == data_range(w)
    IN  np_round(w.vals[i] * levels * dr[2], w.den * dr[1], tie) + 0

\* mutant: the 8-bit levels clamped to 0..255 before the conversion
quantize8_clamped(w, plat) ==
    [status |-> "ok",
     data |-> [dtype |-> "uint8", den |-> 1,
               elems |-> [i \in DOMAIN w.vals |->
                            np_clip(level_of(w, 255, i, plat.tie), 0, 255)]],
     scale |-> scale_of(w, 255),
     zero_point |-> 0]

\* mutant: the 8-bit levels centred on a zero_point of 128
quantize8_offset(w, plat) ==
    [status |-> "ok",
     data |-> [dtype |-> "uint8", den |-> 1,
               elems |-> [i \in DOMAIN w.vals |->
                            astype_uint8(level_of(w, 255, i, plat.tie) + 128, plat.cast)]],
     scale |-> scale_of(w, 255),
     zero_point |-> 128]

\* lines 342-347
quantize8(w, plat) ==
    [status |-> "ok",
     data |-> [dtype |-> "uint8", den |-> 1,
               elems |-> [i \in DOMAIN w.vals |->
                            astype_uint8(level_of(w, 255, i, plat.tie), plat.cast)]],
     scale |-> scale_of(w, 255),
     zero_point |-> 0]

\* mutant: the 4-bit levels without the np.clip to 0..15
quantized_float_unclamped(w, tie) ==
    [i \in DOMAIN w.vals |-> level_of(w, 15, i, tie)]

\* quantized_float of line 353
quantized_float(w, tie) ==
    [i \in DOMAIN w.vals |-> np_clip(level_of(w, 15, i, tie), 0, 15)]

\* the indexes of quantized_float the packing loops read, in order (lines 356-368)
pack_reads(n) ==
    [k \in 1..(2 * (n \div 2)) |-> k - 1]
        \o (IF n % 2 = 1 /\ n > 1 THEN <<-1>> ELSE <<>>)

\* lines 356-368: two levels per byte, first level in the high nibble
pack4(qf, shape) ==
    LET n == Len(qf)
        item(j) == int_item(qf, shape, j).val
        pairs == [i \in 1..(n \div 2) |-> item(2 * (i - 1)) * 16 + item(2 * (i - 1) + 1)]
    IN  IF n % 2 = 0 THEN pairs
        ELSE pairs \o <<IF n > 1 THEN item(-1) * 16 ELSE 0>>

\* lines 349-370
quantize4(w, plat) ==
    LET qf == quantized_float(w, plat.tie)
        reads == pack_reads(Size(w))
        bad == {k \in DOMAIN reads : int_item(qf, w.shape, reads[k]).err # "none"}
    IN  IF bad # {}
        THEN [status |-> "raise",
              error |-> int_item(qf, w.shape, reads[SetMin(bad)]).err]
        ELSE [status |-> "ok",
              data |-> [dtype |-> "uint8", den |-> 1, elems |-> pack4(qf, w.shape)],
              scale |-> scale_of(w, 15),
              zero_point |-> 0]

\* mutant: the 32-bit width served by the half-precision cast of the 16-bit one
quantize_weights_cast32(w, b, plat) ==
    IF b = 32 \/ b = 16 THEN
        [status |-> "ok",
         data |-> [dtype |-> "float16", den |-> w.den, elems |-> w.vals],
         scale |-> <<1, 1>>, zero_point |-> 0]
    ELSE IF Size(w) = 0 THEN [status |-> "raise", error |-> "ValueError"]
    ELSE IF b = 8 THEN quantize8(w, plat)
    ELSE IF b = 4 THEN quantize4(w, plat)
    ELSE [status |-> "none"]

\* _quantize_weights(weights, bits).  status "ok": the returned triple;
\* "raise": the exception raised; "none": the function falls off its end and
\* returns None (a bit width other than 32, 16, 8, 4).
quantize_weights(w, b, plat) ==
    IF b = 32 THEN
        [status |-> "ok",
         data |-> [dtype |-> "float32", den |-> w.den, elems |-> w.vals],
         scale |-> <<1, 1>>, zero_point |-> 0]
    ELSE IF b = 16 THEN
        [status |-> "ok",
         data |-> [dtype |-> "float16", den |-> w.den, elems |-> w.vals],
         scale |-> <<1, 1>>, zero_point |-> 0]
    ELSE IF Size(w) = 0 THEN [status |-> "raise", error |-> "ValueError"]
    ELSE IF b = 8 THEN quantize8(w, plat)
    ELSE IF b = 4 THEN quantize4(w, plat)
    ELSE [status |-> "none"]

\* ndarray.itemsize
itemsize(dtype) ==
    CASE dtype = "float32" -> 4
      [] dtype = "float16" -> 2
      [] dtype = "uint8"   -> 1

\* ndarray.nbytes
nbytes(data) == itemsize(data.dtype) * Len(data.elems)

-----------------------------------------------------------------------------
(* _prune_weights and _apply_weight_clustering *)

\* an optional setting: <<>> is Python's None, <<x>> the value x
NoValue == <<>>

Some(x) == <<x>>

IsSet(o) == o # <<>>

Raise(e) == [status |-> "raise", error |-> e]

\* np.count_nonzero of a boolean mask
count_nonzero(mask) == Cardinality({i \in DOMAIN mask : mask[i]})

\* mutant: the mask keeps the elements at the threshold, |w| >= threshold
prune_weights_keep_equal(w, th) ==
    LET mask == [i \in DOMAIN w.vals |-> Abs(w.vals[i]) * th[2] >= th[1] * w.den]
    IN  IF Size(w) = 0 THEN Raise("ZeroDivisionError")
        ELSE [status |-> "ok",
              array |-> [w EXCEPT !.vals =
                           [i \in DOMAIN w.vals |-> IF mask[i] THEN w.vals[i] ELSE 0]],
              sparsity |-> Frac(Size(w) - count_nonzero(mask), Size(w))]

\* _prune_weights(weights, threshold), threshold the fraction th[1] / th[2].
\* mask = |w| > threshold; the sparsity of line 300 divides by mask.size, which
\* is a Python int: ZeroDivisionError for a tensor without elements.  sparsity
\* is the value the debug message of line 301 reports.
prune_weights(w, th) ==
    LET mask == [i \in DOMAIN w.vals |-> Abs(w.vals[i]) * th[2] > th[1] * w.den]
    IN  IF Size(w) = 0 THEN Raise("ZeroDivisionError")
        ELSE [status |-> "ok",
              array |-> [w EXCEPT !.vals =
                           [i \in DOMAIN w.vals |-> IF mask[i] THEN w.vals[i] ELSE 0]],
              sparsity |-> Frac(Size(w) - count_nonzero(mask), Size(w))]

RECURSIVE SortedSeq(_)
SortedSeq(S) ==
    IF S = {} THEN <<>> ELSE <<SetMin(S)>> \o SortedSeq(S \ {SetMin(S)})

\* KMeans(n_clusters = k, random_state = 0).fit on the flat values, and
\* cluster_centers_[labels_] (lines 316-320).  The library is modelled by its
\* contract in one dimension: the k clusters are intervals of the sorted distinct
\* values with the least within-cluster sum of squares, and a centroid is the
\* mean of its cluster.  Values are rescaled by Fact(n) to keep the means exact.
kmeans_centroids(w, k) ==
    LET n == Len(w.vals)
        L == Fact(n)
        d == SortedSeq(Range(w.vals))
        m == Len(d)
        Cuts == {C \in SUBSET (1..(m - 1)) : Cardinality(C) = k - 1}
        pos(v) == CHOOSE p \in 1..m : d[p] = v
        label(C, i) == 1 + Cardinality({c \in C : c < pos(w.vals[i])})
        cnt(C, g) == SeqSum([i \in 1..n |-> IF label(C, i) = g THEN 1 ELSE 0])
        sum(C, g) == SeqSum([i \in 1..n |-> IF label(C, i) = g THEN w.vals[i] ELSE 0])
        sq(C, g) == SeqSum([i \in 1..n |->
                              IF label(C, i) = g THEN w.vals[i] * w.vals[i] ELSE 0])
        cost(C) == SeqSum([g \in 1..k |->
                             L * sq(C, g) - (L \div cnt(C, g)) * sum(C, g) * sum(C, g)])
        best == CHOOSE C \in Cuts : \A C2 \in Cuts : cost(C) <= cost(C2)
    IN  [w EXCEPT !.den = w.den * L,
                  !.vals = [i \in 1..n |->
                              (L \div cnt(best, label(best, i))) * sum(best, label(best, i))]]

\* mutant: the skip taken only for fewer distinct values than clusters
apply_weight_clustering_fewer(w, k) ==
    IF Cardinality(Range(w.vals)) < k
    THEN [status |-> "ok", array |-> w, fitted |-> FALSE]
    ELSE IF k <= 0 THEN Raise("ValueError")
    ELSE [status |-> "ok", array |-> kmeans_centroids(w, k), fitted |-> TRUE]

\* _apply_weight_clustering(weights, num_clusters); fitted tells whether
\* KMeans.fit ran
apply_weight_clustering(w, k) ==
    IF Cardinality(Range(w.vals)) <= k
    THEN [status |-> "ok", array |-> w, fitted |-> FALSE]
    ELSE IF k <= 0 THEN Raise("ValueError")      \* KMeans rejects n_clusters < 1
    ELSE [status |-> "ok", array |-> kmeans_centroids(w, k), fitted |-> TRUE]

-----------------------------------------------------------------------------
(* the processed_weights dictionary *)

\* name.rsplit('.', 1) of lines 241-246; a name is the sequence of its dotted parts
module_name(name) ==
    IF Len(name) >= 2 THEN SubSeq(name, 1, Len(name) - 1) ELSE <<"model">>

param_type(name) == name[Len(name)]

\* "weight" in param_type / "bias" in param_type, for the parameter types in use
HasWeight(pt) == pt \in {"weight", "in_proj_weight"}

HasBias(pt) == pt \in {"bias", "in_proj_bias"}

\* processed_weights is a dict of dicts; a dict is the sequence of its items in
\* insertion order, and assigning to an existing key keeps the key's position.
DictHas(d, key) == \E i \in DOMAIN d : d[i].key = key

DictGet(d, key) == d[CHOOSE i \in DOMAIN d : d[i].key = key].val

DictSet(d, key, val) ==
    IF DictHas(d, key)
    THEN [i \in DOMAIN d |-> IF d[i].key = key THEN [key |-> key, val |-> val] ELSE d[i]]
    ELSE Append(d, [key |-> key, val |-> val])

\* lines 289-292
store_weight(pw, owner, role, info) ==
    LET layer == IF DictHas(pw, owner) THEN DictGet(pw, owner) ELSE <<>>
    IN  DictSet(pw, owner, DictSet(layer, role, info))

\* the (owner, role, weight_info) triples in the iteration order of lines 496-499
Entries(pw) ==
    Concat([i \in DOMAIN pw |->
              [j \in DOMAIN pw[i].val |->
                 [owner |-> pw[i].key, role |-> pw[i].val[j].key,
                  info |-> pw[i].val[j].val]]])

-----------------------------------------------------------------------------
(* struct.pack and tobytes *)

U8(x) == [k |-> "u8", v |-> x, d |-> 1, i |-> 0]

\* struct.pack("i", x): four bytes, least significant first
pack_i(x) ==
    <<U8(x % 256), U8((x \div 256) % 256),
      U8((x \div 65536) % 256), U8((x \div 16777216) % 256)>>

\* struct.pack("f", x) of the fraction x
pack_f(x) == [j \in 1..4 |-> [k |-> "f32", v |-> x[1], d |-> x[2], i |-> j]]

\* struct.pack(f"{len(shape)}i", *shape)
pack_shape(shape) == Concat([j \in DOMAIN shape |-> pack_i(shape[j])])

\* ndarray.tobytes()
tobytes(data) ==
    IF data.dtype = "uint8" THEN [j \in DOMAIN data.elems |-> U8(data.elems[j])]
    ELSE LET w == itemsize(data.dtype)
             kind == IF data.dtype = "float32" THEN "f32" ELSE "f16"
         IN  Concat([j \in DOMAIN data.elems |->
                       [b \in 1..w |->
                          [k |-> kind, v |-> Frac(data.elems[j], data.den)[1],
                           d |-> Frac(data.elems[j], data.den)[2], i |-> b]]])

\* mutant: bits written before zero_point
record_bytes_swapped(info) ==
    pack_shape(info.shape)
      \o (IF "scale" \in DOMAIN info /\ "zero_point" \in DOMAIN info
          THEN pack_f(info.scale) \o pack_i(info.bits) \o pack_i(info.zero_point)
          ELSE <<>>)
      \o tobytes(info.data)

\* lines 504-523: the bytes _save_model appends for one weight_info
record_bytes(info) ==
    pack_shape(info.shape)
      \o (IF "scale" \in DOMAIN info /\ "zero_point" \in DOMAIN info
          THEN pack_f(info.scale) \o pack_i(info.zero_point) \o pack_i(info.bits)
          ELSE <<>>)
      \o tobytes(info.data)

-----------------------------------------------------------------------------
(* Inputs *)

\* shapes of rank 0, 1 and 2 with at most n elements
Shapes(n) ==
    {<<>>} \cup {<<a>> : a \in 0..n}
           \cup {sh \in (0..n) \X (0..n) : sh[1] * sh[2] <= n}

\* all tensors [shape, vals, den] with at most n elements, values -m..m over den
Tensors(n, m) ==
    UNION {[shape : {sh}, den : ValueDens, vals : [1..SeqProd(sh) -> (-m)..m]]
             : sh \in Shapes(n)}

\* the weight tensor [-1.0, -0.5, 0.0, 0.5, 1.0] of the documented scenario
ScenarioTensor == [shape |-> <<5>>, den |-> 2, vals |-> <<-2, -1, 0, 1, 2>>]

\* widths _quantize_weights handles, and one it does not
ValidBits == {4, 8, 16, 32}

BitsInputs == ValidBits \cup {7}

Platforms == [cast : {"wrap", "saturate"}, tie : {"even", "toward", "away"}]

Pending == [status |-> "pending"]

\* the command-line tool is not part of the run
ToolIdle ==
    /\ environ = NoValue /\ ENV_SETTINGS = NoValue
    /\ argv = NoValue /\ args = NoValue /\ settings = NoValue

-----------------------------------------------------------------------------
(* Specification QSpec: one direct call of _quantize_weights *)

QInit ==
    /\ platform \in Platforms
    /\ weights \in Tensors(MaxLen, MaxVal) \cup {ScenarioTensor}
    /\ bits \in BitsInputs
    /\ qresult = Pending
    /\ config = NoValue /\ params = <<>> /\ pc = "idle" /\ idx = 0
    /\ processed_weights = <<>> /\ tinyai_model = NoValue
    /\ weight_data = <<>> /\ weight_offsets = <<>>
    /\ files = NoValue /\ result = Pending /\ log = <<>>
    /\ threshold = NoValue /\ presult = Pending
    /\ num_clusters = 0 /\ cresult = Pending
    /\ ToolIdle

QuantizeCall ==
    /\ qresult = Pending
    /\ qresult' = quantize_weights(weights, bits, platform)
    /\ UNCHANGED <<platform, weights, bits, pipeVars, pruneVars, clusterVars, toolVars>>

QNext == QuantizeCall

QSpec == QInit /\ [][QNext]_vars

-----------------------------------------------------------------------------
(* Specification Spec: one run of convert() *)

\* the parameters a model may hold, in named_parameters() order; a model of the
\* specification holds a sub-sequence of them
ParamPool ==
    << [name |-> <<"fc", "bias">>,      requires_grad |-> TRUE],
       [name |-> <<"weight">>,          requires_grad |-> TRUE],
       [name |-> <<"fc", "alpha">>,     requires_grad |-> FALSE],
       [name |-> <<"model", "weight">>, requires_grad |-> TRUE] >>

\* the arrays a parameter may hold
ArrayPool ==
    { [shape |-> <<3>>,    den |-> 2, vals |-> <<-2, 1, 2>>],
      [shape |-> <<1, 2>>, den |-> 2, vals |-> <<1, 2>>],
      [shape |-> <<>>,     den |-> 2, vals |-> <<1>>],
      [shape |-> <<0>>,    den |-> 2, vals |-> <<>>] }

\* the sub-sequence of s at the indexes in I
RECURSIVE SubSeqAt(_, _)
SubSeqAt(s, I) ==
    IF I = {} THEN <<>> ELSE <<s[SetMin(I)]>> \o SubSeqAt(s, I \ {SetMin(I)})

Models ==
    UNION { LET names == SubSeqAt(ParamPool, I)
            IN  { [i \in DOMAIN names |->
                     [name |-> names[i].name, requires_grad |-> names[i].requires_grad,
                      array |-> arr[i]]] : arr \in [DOMAIN names -> ArrayPool] }
            : I \in {J \in SUBSET DOMAIN ParamPool : Cardinality(J) <= MaxParams} }

Configs ==
    [quantize_bits : BitsInputs,
     mixed_precision : BOOLEAN,
     prune_threshold : {NoValue, Some(<<1, 2>>)},
     weight_clustering : {NoValue, Some(0), Some(2)},
     verbose : BOOLEAN]

\* the build the runs of Spec are checked on (QSpec covers the others)
PipePlatforms == {[cast |-> "wrap", tie |-> "even"]}

Absent == [state |-> "absent"]

Init ==
    /\ platform \in PipePlatforms
    /\ config \in Configs
    /\ params \in Models
    /\ pc = "process"
    /\ idx = 1
    /\ processed_weights = <<>>
    /\ tinyai_model = NoValue
    /\ weight_data = <<>>
    /\ weight_offsets = <<>>
    /\ files = [json |-> Absent, bin |-> Absent]
    /\ result = Pending
    /\ log = <<>>
    /\ weights = NoValue /\ bits = 0 /\ qresult = Pending
    /\ threshold = NoValue /\ presult = Pending
    /\ num_clusters = 0 /\ cresult = Pending
    /\ ToolIdle

Event(op, i) == [op |-> op, i |-> i]

\* mutant: one bit width for every role, mixed precision or not
quantize_step_uniform(wd, pt, cfg, plat) ==
    IF HasWeight(pt) \/ HasBias(pt) THEN
        LET b == cfg.quantize_bits
            q == quantize_weights(wd, b, plat)
        IN  IF q.status = "raise" THEN q
            ELSE IF q.status = "none" THEN Raise("TypeError")
            ELSE [status |-> "ok",
                  info |-> [data |-> q.data, scale |-> q.scale,
                            zero_point |-> q.zero_point,
                            bits |-> b,
                            shape |-> wd.shape]]
    ELSE [status |-> "ok",
          info |-> [data |-> [dtype |-> "float32", den |-> wd.den, elems |-> wd.vals],
                    shape |-> wd.shape]]

\* mutant: every role goes through the quantizer
quantize_step_every_role(wd, pt, cfg, plat) ==
    LET b == IF cfg.mixed_precision
             THEN (IF HasWeight(pt) THEN cfg.quantize_bits ELSE 8)
             ELSE cfg.quantize_bits
        q == quantize_weights(wd, b, plat)
    IN  IF q.status = "raise" THEN q
        ELSE IF q.status = "none" THEN Raise("TypeError")
        ELSE [status |-> "ok",
              info |-> [data |-> q.data, scale |-> q.scale,
                        zero_point |-> q.zero_point,
                        bits |-> IF cfg.mixed_precision THEN b ELSE cfg.quantize_bits,
                        shape |-> wd.shape]]

\* mutant: the configured width recorded whatever width was used
quantize_step_configured_bits(wd, pt, cfg, plat) ==
    IF HasWeight(pt) \/ HasBias(pt) THEN
        LET b == IF cfg.mixed_precision
                 THEN (IF HasWeight(pt) THEN cfg.quantize_bits ELSE 8)
                 ELSE cfg.quantize_bits
            q == quantize_weights(wd, b, plat)
        IN  IF q.status = "raise" THEN q
            ELSE IF q.status = "none" THEN Raise("TypeError")
            ELSE [status |-> "ok",
                  info |-> [data |-> q.data, scale |-> q.scale,
                            zero_point |-> q.zero_point,
                            bits |-> cfg.quantize_bits,
                            shape |-> wd.shape]]
    ELSE [status |-> "ok",
          info |-> [data |-> [dtype |-> "float32", den |-> wd.den, elems |-> wd.vals],
                    shape |-> wd.shape]]

\* lines 257-286 for the array wd of a parameter of type pt
quantize_step(wd, pt, cfg, plat) ==
    IF HasWeight(pt) \/ HasBias(pt) THEN
        LET b == IF cfg.mixed_precision
                 THEN (IF HasWeight(pt) THEN cfg.quantize_bits ELSE 8)
                 ELSE cfg.quantize_bits
            q == quantize_weights(wd, b, plat)
        IN  IF q.status = "raise" THEN q
            ELSE IF q.status = "none" THEN Raise("TypeError")   \* unpacking None
            ELSE [status |-> "ok",
                  info |-> [data |-> q.data, scale |-> q.scale,
                            zero_point |-> q.zero_point,
                            bits |-> IF cfg.mixed_precision THEN b ELSE cfg.quantize_bits,
                            shape |-> wd.shape]]
    ELSE [status |-> "ok",
          info |-> [data |-> [dtype |-> "float32", den |-> wd.den, elems |-> wd.vals],
                    shape |-> wd.shape]]

\* mutant: clustering applied before pruning
process_param_cluster_first(p, cfg, plat) ==
    LET pt == param_type(p.name)
        doPrune == IsSet(cfg.prune_threshold)
        doCluster == IsSet(cfg.weight_clustering)
        doQuant == HasWeight(pt) \/ HasBias(pt)
        cl == IF doCluster THEN apply_weight_clustering(p.array, cfg.weight_clustering[1])
              ELSE [status |-> "ok", array |-> p.array]
        pr == IF cl.status # "ok" THEN cl
              ELSE IF doPrune THEN prune_weights(cl.array, cfg.prune_threshold[1])
              ELSE cl
        qu == IF pr.status # "ok" THEN pr ELSE quantize_step(pr.array, pt, cfg, plat)
        ops == (IF doCluster /\ cl.status = "ok" THEN <<"cluster">> ELSE <<>>)
                 \o (IF doPrune /\ pr.status = "ok" THEN <<"prune">> ELSE <<>>)
                 \o (IF doQuant /\ qu.status = "ok" THEN <<"quantize">> ELSE <<>>)
    IN  [status |-> qu.status,
         error |-> IF qu.status = "ok" THEN "none" ELSE qu.error,
         info |-> IF qu.status = "ok" THEN qu.info ELSE <<>>,
         ops |-> ops]

\* mutant: pruning and clustering only for the roles that are quantized
process_param_skip_other(p, cfg, plat) ==
    LET pt == param_type(p.name)
        doQuant == HasWeight(pt) \/ HasBias(pt)
        doPrune == IsSet(cfg.prune_threshold) /\ doQuant
        doCluster == IsSet(cfg.weight_clustering) /\ doQuant
        pr == IF doPrune THEN prune_weights(p.array, cfg.prune_threshold[1])
              ELSE [status |-> "ok", array |-> p.array]
        cl == IF pr.status # "ok" THEN pr
              ELSE IF doCluster THEN apply_weight_clustering(pr.array, cfg.weight_clustering[1])
              ELSE pr
        qu == IF cl.status # "ok" THEN cl ELSE quantize_step(cl.array, pt, cfg, plat)
        ops == (IF doPrune /\ pr.status = "ok" THEN <<"prune">> ELSE <<>>)
                 \o (IF doCluster /\ cl.status = "ok" THEN <<"cluster">> ELSE <<>>)
                 \o (IF doQuant /\ qu.status = "ok" THEN <<"quantize">> ELSE <<>>)
    IN  [status |-> qu.status,
         error |-> IF qu.status = "ok" THEN "none" ELSE qu.error,
         info |-> IF qu.status = "ok" THEN qu.info ELSE <<>>,
         ops |-> ops]

\* lines 248-286: prune, cluster and quantize one parameter; ops are the stages
\* that ran to their end, in order
process_param(p, cfg, plat) ==
    LET pt == param_type(p.name)
        doPrune == IsSet(cfg.prune_threshold)
        doCluster == IsSet(cfg.weight_clustering)
        doQuant == HasWeight(pt) \/ HasBias(pt)
        pr == IF doPrune THEN prune_weights(p.array, cfg.prune_threshold[1])
              ELSE [status |-> "ok", array |-> p.array]
        cl == IF pr.status # "ok" THEN pr
              ELSE IF doCluster THEN apply_weight_clustering(pr.array, cfg.weight_clustering[1])
              ELSE pr
        qu == IF cl.status # "ok" THEN cl ELSE quantize_step(cl.array, pt, cfg, plat)
        ops == (IF doPrune /\ pr.status = "ok" THEN <<"prune">> ELSE <<>>)
                 \o (IF doCluster /\ cl.status = "ok" THEN <<"cluster">> ELSE <<>>)
                 \o (IF doQuant /\ qu.status = "ok" THEN <<"quantize">> ELSE <<>>)
    IN  [status |-> qu.status,
         error |-> IF qu.status = "ok" THEN "none" ELSE qu.error,
         info |-> IF qu.status = "ok" THEN qu.info ELSE <<>>,
         ops |-> ops]

\* one iteration of the loop of _process_weights (lines 232-292); an exception
\* leaves convert(), which has no handler
ProcessWeight ==
    /\ pc = "process"
    /\ idx <= Len(params)
    /\ LET p == params[idx]
           r == process_param(p, config, platform)
       IN  IF ~p.requires_grad /\ ~config.verbose
           THEN /\ idx' = idx + 1
                /\ UNCHANGED <<pc, processed_weights, result, log>>
           ELSE /\ log' = log \o [j \in DOMAIN r.ops |-> Event(r.ops[j], idx)]
                /\ IF r.status = "ok"
                   THEN /\ processed_weights' =
                              store_weight(processed_weights, module_name(p.name),
                                           param_type(p.name), r.info)
                        /\ idx' = idx + 1
                        /\ UNCHANGED <<pc, result>>
                   ELSE /\ pc' = "raised"
                        /\ result' = Raise(r.error)
                        /\ UNCHANGED <<idx, processed_weights>>
    /\ UNCHANGED <<platform, config, params, tinyai_model, weight_data,
                   weight_offsets, files, callVars, toolVars>>

\* mutant: the pruning and clustering entries written whether configured or not
create_tinyai_model_all_entries(cfg, pw) ==
    [format_version |-> "1.0",
     source |-> [framework |-> "pytorch"],
     metadata |-> [quantization |-> [bits |-> cfg.quantize_bits,
                                     mixed_precision |-> cfg.mixed_precision],
                   pruning |-> [threshold |-> cfg.prune_threshold],
                   clustering |-> [num_clusters |-> cfg.weight_clustering]],
     layers |-> <<>>,
     weights |-> pw]

\* _create_tinyai_model (lines 378-426); the layer list is the opaque structural
\* metadata and is left out
create_tinyai_model(cfg, pw) ==
    [format_version |-> "1.0",
     source |-> [framework |-> "pytorch"],
     metadata |-> [quantization |-> [bits |-> cfg.quantize_bits,
                                     mixed_precision |-> cfg.mixed_precision]]
                    @@ (IF IsSet(cfg.prune_threshold)
                        THEN [pruning |-> [threshold |-> cfg.prune_threshold[1]]]
                        ELSE <<>>)
                    @@ (IF IsSet(cfg.weight_clustering)
                        THEN [clustering |-> [num_clusters |-> cfg.weight_clustering[1]]]
                        ELSE <<>>),
     layers |-> <<>>,
     weights |-> pw]

\* convert() line 98, after the loop of _process_weights ended
CreateModel ==
    /\ pc = "process"
    /\ idx > Len(params)
    /\ tinyai_model' = create_tinyai_model(config, processed_weights)
    /\ log' = Append(log, Event("build", 0))
    /\ pc' = "save"
    /\ UNCHANGED <<platform, config, params, idx, processed_weights, weight_data,
                   weight_offsets, files, result, callVars, toolVars>>

\* _save_model lines 481-494: os.makedirs, then the empty buffer and index; a
\* failure is caught at line 546 and convert() returns {}
SaveBegin ==
    /\ pc = "save"
    /\ log' = Append(log, Event("serialize", 0))
    /\ \E made \in BOOLEAN :
          IF made
          THEN /\ pc' = "append" /\ idx' = 1
               /\ weight_data' = <<>> /\ weight_offsets' = <<>>
               /\ UNCHANGED result
          ELSE /\ pc' = "returned" /\ result' = [status |-> "empty"]
               /\ UNCHANGED <<idx, weight_data, weight_offsets>>
    /\ UNCHANGED <<platform, config, params, processed_weights, tinyai_model,
                   files, callVars, toolVars>>

\* mutant: the offset taken after the shape header went into the buffer
save_append_after_header(buffer, offsets, e) ==
    [data |-> buffer \o record_bytes(e.info),
     offsets |-> Append(offsets,
                        [owner |-> e.owner, role |-> e.role,
                         offset |-> Len(buffer) + Len(pack_shape(e.info.shape))])]

\* mutant: the offset taken after the whole record went into the buffer
save_append_after_record(buffer, offsets, e) ==
    [data |-> buffer \o record_bytes(e.info),
     offsets |-> Append(offsets,
                        [owner |-> e.owner, role |-> e.role,
                         offset |-> Len(buffer \o record_bytes(e.info))])]

\* lines 499-524 for one (owner, role, weight_info): the offset is the buffer
\* length before anything of the tensor is appended
save_append(buffer, offsets, e) ==
    [data |-> buffer \o record_bytes(e.info),
     offsets |-> Append(offsets,
                        [owner |-> e.owner, role |-> e.role, offset |-> Len(buffer)])]

\* mutant: the entries visited in an order that is not fixed (a mapping whose
\* iteration order is not its insertion order)
SaveAppendAnyOrder ==
    /\ pc = "append"
    /\ idx <= Len(Entries(tinyai_model.weights))
    /\ \E j \in DOMAIN Entries(tinyai_model.weights) :
          LET e == Entries(tinyai_model.weights)[j]
              r == save_append(weight_data, weight_offsets, e)
          IN  /\ \A o \in DOMAIN weight_offsets :
                    <<weight_offsets[o].owner, weight_offsets[o].role>> # <<e.owner, e.role>>
              /\ weight_offsets' = r.offsets
              /\ weight_data' = r.data
    /\ idx' = idx + 1
    /\ UNCHANGED <<platform, config, params, pc, processed_weights, tinyai_model,
                   files, result, log, callVars, toolVars>>

\* one iteration of the inner loop of _save_model (lines 499-524)
SaveAppend ==
    /\ pc = "append"
    /\ idx <= Len(Entries(tinyai_model.weights))
    /\ LET r == save_append(weight_data, weight_offsets,
                            Entries(tinyai_model.weights)[idx])
       IN  /\ weight_offsets' = r.offsets
           /\ weight_data' = r.data
    /\ idx' = idx + 1
    /\ UNCHANGED <<platform, config, params, pc, processed_weights, tinyai_model,
                   files, result, log, callVars, toolVars>>

\* mutant: the document written without the offset index
metadata_document_without_offsets(model, offsets) ==
    [key \in DOMAIN model \ {"weights"} |-> model[key]]

\* the metadata document of lines 486 and 529
metadata_document(model, offsets) ==
    [key \in (DOMAIN model \ {"weights"}) \cup {"weight_offsets"} |->
        IF key = "weight_offsets" THEN offsets ELSE model[key]]

IoOutcomes == {"ok", "open fails", "write fails"}

\* what an open(path, "w") followed by a write leaves at path
Written(old, outcome, content) ==
    CASE outcome = "ok"          -> [state |-> "written", content |-> content]
      [] outcome = "open fails"  -> old
      [] outcome = "write fails" -> [state |-> "partial"]

\* mutant: the offset index stored into the model dict itself (metadata an
\* alias of model instead of a copy)
WriteMetadataInPlace ==
    /\ pc = "append"
    /\ idx > Len(Entries(tinyai_model.weights))
    /\ tinyai_model' = [weight_offsets |-> weight_offsets] @@ tinyai_model
    /\ \E io \in IoOutcomes :
          /\ files' = [files EXCEPT !.json =
                         Written(@, io, metadata_document(tinyai_model', weight_offsets))]
          /\ IF io = "ok"
             THEN pc' = "write_bin" /\ UNCHANGED result
             ELSE pc' = "returned" /\ result' = [status |-> "empty"]
    /\ log' = Append(log, Event("write_json", 0))
    /\ UNCHANGED <<platform, config, params, idx, processed_weights,
                   weight_data, weight_offsets, callVars, toolVars>>

\* _save_model lines 529-534: the offsets join the metadata, the JSON file is written
WriteMetadata ==
    /\ pc = "append"
    /\ idx > Len(Entries(tinyai_model.weights))
    /\ \E io \in IoOutcomes :
          /\ files' = [files EXCEPT !.json =
                         Written(@, io, metadata_document(tinyai_model, weight_offsets))]
          /\ IF io = "ok"
             THEN pc' = "write_bin" /\ UNCHANGED result
             ELSE pc' = "returned" /\ result' = [status |-> "empty"]
    /\ log' = Append(log, Event("write_json", 0))
    /\ UNCHANGED <<platform, config, params, idx, processed_weights, tinyai_model,
                   weight_data, weight_offsets, callVars, toolVars>>

\* _save_model lines 536-544: the binary file is written
WriteWeights ==
    /\ pc = "write_bin"
    /\ \E io \in IoOutcomes :
          /\ files' = [files EXCEPT !.bin = Written(@, io, weight_data)]
          /\ IF io = "ok"
             THEN pc' = "stats" /\ UNCHANGED result
             ELSE pc' = "returned" /\ result' = [status |-> "empty"]
    /\ log' = Append(log, Event("write_bin", 0))
    /\ UNCHANGED <<platform, config, params, idx, processed_weights, tinyai_model,
                   weight_data, weight_offsets, callVars, toolVars>>

\* mutant: the converted size counted as the bytes of the whole records
gather_statistics_with_headers(ps, model, pw, cfg) ==
    LET counted == [i \in DOMAIN ps |->
                      IF ps[i].requires_grad THEN Size(ps[i].array) ELSE 0]
        num_parameters == SeqSum(counted)
        original_size == 4 * num_parameters
        converted_size ==
            SeqSum([i \in DOMAIN Entries(pw) |-> Len(record_bytes(Entries(pw)[i].info))])
    IN  [framework |-> model.source.framework,
         num_layers |-> Len(model.layers),
         quantization_bits |-> model.metadata.quantization.bits,
         mixed_precision |-> model.metadata.quantization.mixed_precision,
         num_parameters |-> num_parameters,
         original_size_bytes |-> original_size,
         converted_size_bytes |-> converted_size,
         compression_ratio |-> IF converted_size > 0
                               THEN Frac(original_size, converted_size) ELSE <<0, 1>>]
          @@ (IF IsSet(cfg.prune_threshold)
              THEN [pruning_threshold |-> cfg.prune_threshold[1]] ELSE <<>>)
          @@ (IF IsSet(cfg.weight_clustering)
              THEN [weight_clustering_clusters |-> cfg.weight_clustering[1]] ELSE <<>>)

\* _gather_statistics (lines 555-597)
gather_statistics(ps, model, pw, cfg) ==
    LET counted == [i \in DOMAIN ps |->
                      IF ps[i].requires_grad THEN Size(ps[i].array) ELSE 0]
        num_parameters == SeqSum(counted)
        original_size == 4 * num_parameters
        converted_size ==
            SeqSum([i \in DOMAIN Entries(pw) |-> nbytes(Entries(pw)[i].info.data)])
    IN  [framework |-> model.source.framework,
         num_layers |-> Len(model.layers),
         quantization_bits |-> model.metadata.quantization.bits,
         mixed_precision |-> model.metadata.quantization.mixed_precision,
         num_parameters |-> num_parameters,
         original_size_bytes |-> original_size,
         converted_size_bytes |-> converted_size,
         compression_ratio |-> IF converted_size > 0
                               THEN Frac(original_size, converted_size) ELSE <<0, 1>>]
          @@ (IF IsSet(cfg.prune_threshold)
              THEN [pruning_threshold |-> cfg.prune_threshold[1]] ELSE <<>>)
          @@ (IF IsSet(cfg.weight_clustering)
              THEN [weight_clustering_clusters |-> cfg.weight_clustering[1]] ELSE <<>>)

\* convert() lines 106-109
GatherStatistics ==
    /\ pc = "stats"
    /\ result' = [status |-> "stats",
                  stats |-> gather_statistics(params, tinyai_model,
                                              processed_weights, config)]
    /\ log' = Append(log, Event("stats", 0))
    /\ pc' = "returned"
    /\ UNCHANGED <<platform, config, params, idx, processed_weights, tinyai_model,
                   weight_data, weight_offsets, files, callVars, toolVars>>

Next ==
    \/ ProcessWeight
    \/ CreateModel
    \/ SaveBegin
    \/ SaveAppend
    \/ WriteMetadata
    \/ WriteWeights
    \/ GatherStatistics

Spec == Init /\ [][Next]_vars

-----------------------------------------------------------------------------
(* Specification PSpec: one direct call of _prune_weights *)

\* the tensor [0.01, 0.2, -0.01, 0.3] of the documented scenario
PruneScenarioTensor == [shape |-> <<4>>, den |-> 100, vals |-> <<1, 20, -1, 30>>]

\* thresholds, as fractions: 0, 0.05, 0.5, 0.75 and the largest generated
\* absolute value
Thresholds == {<<0, 1>>, <<1, 20>>, <<1, 2>>, <<3, 4>>, <<MaxVal, 2>>}

PInit ==
    /\ weights \in Tensors(MaxLen, MaxVal) \cup {PruneScenarioTensor}
    /\ threshold \in Thresholds
    /\ presult = Pending
    /\ platform \in PipePlatforms
    /\ bits = 0 /\ qresult = Pending
    /\ num_clusters = 0 /\ cresult = Pending
    /\ config = NoValue /\ params = <<>> /\ pc = "idle" /\ idx = 0
    /\ processed_weights = <<>> /\ tinyai_model = NoValue
    /\ weight_data = <<>> /\ weight_offsets = <<>>
    /\ files = NoValue /\ result = Pending /\ log = <<>>
    /\ ToolIdle

PruneCall ==
    /\ presult = Pending
    /\ presult' = prune_weights(weights, threshold)
    /\ UNCHANGED <<platform, weights, threshold, bits, qresult, clusterVars, pipeVars,
                   toolVars>>

PNext == PruneCall

PSpec == PInit /\ [][PNext]_vars

-----------------------------------------------------------------------------
(* Specification CSpec: one direct call of _apply_weight_clustering *)

\* cluster counts: none of them is rejected by the converter
ClusterCounts == {-1, 0, 1, 2, 3}

CInit ==
    /\ weights \in Tensors(MaxLen, MaxVal)
    /\ num_clusters \in ClusterCounts
    /\ cresult = Pending
    /\ platform \in PipePlatforms
    /\ bits = 0 /\ qresult = Pending
    /\ threshold = NoValue /\ presult = Pending
    /\ config = NoValue /\ params = <<>> /\ pc = "idle" /\ idx = 0
    /\ processed_weights = <<>> /\ tinyai_model = NoValue
    /\ weight_data = <<>> /\ weight_offsets = <<>>
    /\ files = NoValue /\ result = Pending /\ log = <<>>
    /\ ToolIdle

ClusterCall ==
    /\ cresult = Pending
    /\ cresult' = apply_weight_clustering(weights, num_clusters)
    /\ UNCHANGED <<platform, weights, num_clusters, quantVars, pruneVars, pipeVars,
                   toolVars>>

CNext == ClusterCall

CSpec == CInit /\ [][CNext]_vars

-----------------------------------------------------------------------------
(* Specification MSpec: the settings of one run of convert_model.main() *)

\* config.py line 17
DEFAULT_QUANTIZATION_BITS == 4

\* int(text) for the texts in use: the number, or ValueError
int_text(t) ==
    CASE t = "2"  -> [ok |-> TRUE, val |-> 2]
      [] t = "3"  -> [ok |-> TRUE, val |-> 3]
      [] t = "4"  -> [ok |-> TRUE, val |-> 4]
      [] t = "7"  -> [ok |-> TRUE, val |-> 7]
      [] t = "8"  -> [ok |-> TRUE, val |-> 8]
      [] t = "16" -> [ok |-> TRUE, val |-> 16]
      [] t = "32" -> [ok |-> TRUE, val |-> 32]
      [] OTHER    -> [ok |-> FALSE, val |-> 0]

\* float(text) for the texts in use, as a fraction
float_text(t) ==
    CASE t = "0.5"  -> [ok |-> TRUE, val |-> <<1, 2>>]
      [] t = "0.25" -> [ok |-> TRUE, val |-> <<1, 4>>]
      [] OTHER      -> [ok |-> FALSE, val |-> <<0, 1>>]

\* text.lower() in ["true", "1", "yes"]
truthy(t) == t \in {"true", "True", "TRUE", "1", "yes", "Yes", "YES"}

\* get_env_settings (config.py lines 50-98) for the four converter settings:
\* the dict holds a key only for a variable that is set and parses
get_env_settings(env) ==
    (IF IsSet(env.TINYAI_QUANTIZE_BITS) /\ int_text(env.TINYAI_QUANTIZE_BITS[1]).ok
     THEN [quantize_bits |-> int_text(env.TINYAI_QUANTIZE_BITS[1]).val] ELSE <<>>)
    @@ (IF IsSet(env.TINYAI_MIXED_PRECISION)
        THEN [mixed_precision |-> truthy(env.TINYAI_MIXED_PRECISION[1])] ELSE <<>>)
    @@ (IF IsSet(env.TINYAI_PRUNE_THRESHOLD) /\ float_text(env.TINYAI_PRUNE_THRESHOLD[1]).ok
        THEN [prune_threshold |-> float_text(env.TINYAI_PRUNE_THRESHOLD[1]).val] ELSE <<>>)
    @@ (IF IsSet(env.TINYAI_WEIGHT_CLUSTERING) /\ int_text(env.TINYAI_WEIGHT_CLUSTERING[1]).ok
        THEN [weight_clustering |-> int_text(env.TINYAI_WEIGHT_CLUSTERING[1]).val] ELSE <<>>)

\* get_converter_settings (config.py lines 103-113): ENV_SETTINGS.get(key, default)
get_converter_settings(es) ==
    [quantize_bits |-> IF "quantize_bits" \in DOMAIN es THEN es.quantize_bits
                       ELSE DEFAULT_QUANTIZATION_BITS,
     mixed_precision |-> IF "mixed_precision" \in DOMAIN es THEN es.mixed_precision
                         ELSE FALSE,
     prune_threshold |-> IF "prune_threshold" \in DOMAIN es THEN Some(es.prune_threshold)
                         ELSE NoValue,
     weight_clustering |-> IF "weight_clustering" \in DOMAIN es
                           THEN Some(es.weight_clustering) ELSE NoValue]

\* the option texts argparse rejects (convert_model.py lines 136-143): a
\* --quantize outside its choices, a text that is not a number
Rejected(av) ==
    \/ /\ IsSet(av.quantize)
       /\ (~int_text(av.quantize[1]).ok \/ int_text(av.quantize[1]).val \notin {4, 8, 16, 32})
    \/ IsSet(av.prune) /\ ~float_text(av.prune[1]).ok
    \/ IsSet(av.weight_clustering) /\ ~int_text(av.weight_clustering[1]).ok

\* parse_args() for an accepted command line: --quantize has default=4, the
\* options without a default are None when not given
parse_args(av) ==
    [quantize |-> IF IsSet(av.quantize) THEN Some(int_text(av.quantize[1]).val)
                  ELSE Some(4),
     mixed_precision |-> av.mixed_precision,
     prune |-> IF IsSet(av.prune) THEN Some(float_text(av.prune[1]).val) ELSE NoValue,
     weight_clustering |-> IF IsSet(av.weight_clustering)
                           THEN Some(int_text(av.weight_clustering[1]).val) ELSE NoValue,
     verbose |-> av.verbose]

\* convert_model.py lines 183-193: the command line over the settings
override_settings(st, a) ==
    [quantize_bits |-> IF IsSet(a.quantize) THEN a.quantize[1] ELSE st.quantize_bits,
     mixed_precision |-> IF a.mixed_precision THEN TRUE ELSE st.mixed_precision,
     prune_threshold |-> IF IsSet(a.prune) THEN a.prune ELSE st.prune_threshold,
     weight_clustering |-> IF IsSet(a.weight_clustering) THEN a.weight_clustering
                           ELSE st.weight_clustering]

\* the fields __init__ sets from the call of lines 199-206
converter_fields(st, a) ==
    [quantize_bits |-> st.quantize_bits,
     mixed_precision |-> st.mixed_precision,
     prune_threshold |-> st.prune_threshold,
     weight_clustering |-> st.weight_clustering,
     verbose |-> a.verbose]

Environs ==
    [TINYAI_QUANTIZE_BITS : {NoValue, Some("8"), Some("16"), Some("7"), Some("eight")},
     TINYAI_MIXED_PRECISION : {NoValue, Some("True"), Some("no")},
     TINYAI_PRUNE_THRESHOLD : {NoValue, Some("0.5")},
     TINYAI_WEIGHT_CLUSTERING : {NoValue, Some("2")}]

Argvs ==
    [quantize : {NoValue, Some("4"), Some("8"), Some("32"), Some("7")},
     mixed_precision : BOOLEAN,
     prune : {NoValue, Some("0.25")},
     weight_clustering : {NoValue, Some("3")},
     verbose : BOOLEAN]

MInit ==
    /\ environ \in Environs
    /\ argv \in Argvs
    /\ ENV_SETTINGS = NoValue /\ args = NoValue /\ settings = NoValue
    /\ config = NoValue
    /\ pc = "import"
    /\ platform \in PipePlatforms
    /\ params = <<>> /\ idx = 0
    /\ processed_weights = <<>> /\ tinyai_model = NoValue
    /\ weight_data = <<>> /\ weight_offsets = <<>>
    /\ files = NoValue /\ result = Pending /\ log = <<>>
    /\ weights = NoValue /\ bits = 0 /\ qresult = Pending
    /\ threshold = NoValue /\ presult = Pending
    /\ num_clusters = 0 /\ cresult = Pending

\* what the steps of main() leave alone
mainFrame == <<platform, params, idx, processed_weights, tinyai_model, weight_data,
               weight_offsets, files, result, log, callVars, environ, argv>>

\* config.py line 101, when the module is imported
LoadEnvSettings ==
    /\ pc = "import"
    /\ ENV_SETTINGS' = get_env_settings(environ)
    /\ pc' = "parse"
    /\ UNCHANGED <<mainFrame, args, settings, config>>

\* convert_model.py line 149; a rejected command line ends the tool
ParseArgs ==
    /\ pc = "parse"
    /\ IF Rejected(argv)
       THEN pc' = "exit" /\ UNCHANGED args
       ELSE pc' = "settings" /\ args' = parse_args(argv)
    /\ UNCHANGED <<mainFrame, ENV_SETTINGS, settings, config>>

\* convert_model.py line 180
GetSettings ==
    /\ pc = "settings"
    /\ settings' = get_converter_settings(ENV_SETTINGS)
    /\ pc' = "override"
    /\ UNCHANGED <<mainFrame, ENV_SETTINGS, args, config>>

\* convert_model.py lines 183-196
OverrideSettings ==
    /\ pc = "override"
    /\ settings' = override_settings(settings, args)
    /\ pc' = "construct"
    /\ UNCHANGED <<mainFrame, ENV_SETTINGS, args, config>>

\* convert_model.py lines 199-206
Construct ==
    /\ pc = "construct"
    /\ config' = converter_fields(settings, args)
    /\ pc' = "constructed"
    /\ UNCHANGED <<mainFrame, ENV_SETTINGS, args, settings>>

MNext ==
    \/ LoadEnvSettings
    \/ ParseArgs
    \/ GetSettings
    \/ OverrideSettings
    \/ Construct

MSpec == MInit /\ [][MNext]_vars

-----------------------------------------------------------------------------
(* Claims about _quantize_weights, checked under QSpec *)

Returned == qresult.status = "ok"

Finished == qresult.status # "pending"

IsConstant(w) == Size(w) > 0 /\ \A i, j \in DOMAIN w.vals : w.vals[i] = w.vals[j]

\* C1: at 4 bits, with q the clamped levels in element order, payload byte i
\* (0 <= i < floor(n/2)) is (q[2i] << 4) | q[2i+1], and for every odd n,
\* n = 1 included, the final byte is q[n-1] << 4.
C1_NibblePacking ==
    (bits = 4 /\ Returned) =>
        LET q == quantized_float(weights, platform.tie)
            n == Len(q)
            p == qresult.data.elems
        IN  /\ \A i \in 0..((n \div 2) - 1) : p[i + 1] = q[2 * i + 1] * 16 + q[2 * i + 2]
            /\ (n % 2 = 1) => p[Len(p)] = q[n] * 16

\* C2: for every shape and every bits in {4, 8, 16, 32} the call completes
\* without error and the payload has 4n, 2n, n or ceil(n/2) bytes.
C2_PayloadLength ==
    (bits \in ValidBits /\ Finished) =>
        /\ Returned
        /\ nbytes(qresult.data) =
              CASE bits = 32 -> 4 * Size(weights)
                [] bits = 16 -> 2 * Size(weights)
                [] bits = 8  -> Size(weights)
                [] bits = 4  -> (Size(weights) + 1) \div 2

\* C3 as stated: [-1.0, -0.5, 0.0, 0.5, 1.0] at 4 bits gives scale 2.0/15,
\* levels [0, 4, 8, 11, 15] and the payload 0x04, 0x8B, 0xF0.
C3_ScenarioAsStated ==
    (weights = ScenarioTensor /\ bits = 4 /\ Finished) =>
        /\ Returned
        /\ Frac(data_range(weights)[1], data_range(weights)[2]) = <<2, 1>>
        /\ qresult.scale = <<2, 15>>
        /\ quantized_float(weights, platform.tie) = <<0, 4, 8, 11, 15>>
        /\ qresult.data.elems = <<4, 139, 240>>

\* C3 (amended): [-1.0, -0.5, 0.0, 0.5, 1.0] at 4 bits gives data_range 2.0,
\* scale 2.0/15 and, zero_point being 0, the levels [0, 0, 0, 4, 8] with the
\* payload 0x00, 0x04, 0x80; the last level is 7 (payload byte 0x70) where the
\* floating-point quotient 1.0 / scale falls below the tie 7.5.
C3_Scenario ==
    (weights = ScenarioTensor /\ bits = 4 /\ Finished) =>
        LET last == IF platform.tie = "toward" THEN 7 ELSE 8
        IN  /\ Returned
            /\ Frac(data_range(weights)[1], data_range(weights)[2]) = <<2, 1>>
            /\ qresult.scale = <<2, 15>>
            /\ qresult.zero_point = 0
            /\ quantized_float(weights, platform.tie) = <<0, 0, 0, 4, last>>
            /\ qresult.data.elems = <<0, 4, 16 * last>>

C3_Witness == weights = ScenarioTensor /\ bits = 4 /\ Returned

\* C4 as stated: for a constant tensor, 8-bit and 4-bit quantization raises no
\* division error and the returned scale equals 1.0.
C4_ScaleOneAsStated ==
    (IsConstant(weights) /\ bits \in {4, 8} /\ Finished) =>
        /\ qresult.status = "raise" => qresult.error # "ZeroDivisionError"
        /\ Returned => qresult.scale = <<1, 1>>

\* C4 (amended): for a constant tensor, 8-bit and 4-bit quantization raises no
\* division error; data_range is replaced by 1.0, so the returned scale is
\* 1.0/255 at 8 bits and 1.0/15 at 4 bits.
C4_ConstantScale ==
    (IsConstant(weights) /\ bits \in {4, 8} /\ Finished) =>
        /\ qresult.status = "raise" => qresult.error # "ZeroDivisionError"
        /\ Returned => qresult.scale = <<1, IF bits = 8 THEN 255 ELSE 15>>

C4_Witness ==
    /\ IsConstant(weights) /\ bits \in {4, 8} /\ Returned
    /\ weights.vals[1] # 0

\* C10: at 8 bits, for a non-empty tensor, data_range = max - min (1.0 when that
\* is 0), scale = data_range / 255, zero_point = 0 and every stored element is
\* round(value / scale + zero_point) converted to uint8 with no clamping step.
C10_Quantize8 ==
    (bits = 8 /\ Size(weights) > 0 /\ Finished) =>
        LET hi == SetMax(Range(weights.vals))
            lo == SetMin(Range(weights.vals))
            rn == IF hi = lo THEN 1 ELSE hi - lo
            rd == IF hi = lo THEN 1 ELSE weights.den
            lev(i) == np_round(weights.vals[i] * 255 * rd, weights.den * rn, platform.tie)
        IN  /\ Returned
            /\ qresult.scale = Frac(rn, rd * 255)
            /\ qresult.zero_point = 0
            /\ qresult.data.dtype = "uint8"
            /\ DOMAIN qresult.data.elems = DOMAIN weights.vals
            /\ \A i \in DOMAIN weights.vals :
                  qresult.data.elems[i] =
                      IF lev(i) \in 0..255 THEN lev(i)
                      ELSE IF platform.cast = "wrap" THEN lev(i) % 256
                      ELSE IF lev(i) < 0 THEN 0 ELSE 255

\* a level beyond 255 was stored wrapped, not clamped
C10_Witness ==
    /\ bits = 8 /\ Returned /\ platform.cast = "wrap"
    /\ \E i \in DOMAIN weights.vals :
          /\ level_of(weights, 255, i, platform.tie) > 255
          /\ qresult.data.elems[i] # 255

\* the two nibbles of a payload byte
HighNibble(b) == b \div 16

LowNibble(b) == b % 16

\* C11: at 4 bits, for a non-empty tensor whose call returns, scale =
\* data_range / 15, zero_point = 0 and every level is
\* clamp(round(value / scale + zero_point), 0, 15); every payload byte holds two
\* nibbles in 0..15, and the byte packed from the elements 2i and 2i+1 has the
\* level of 2i as its high nibble and the level of 2i+1 as its low nibble,
\* neither changed by the other.
C11_Quantize4 ==
    (bits = 4 /\ Size(weights) > 0 /\ Returned) =>
        LET hi == SetMax(Range(weights.vals))
            lo == SetMin(Range(weights.vals))
            rn == IF hi = lo THEN 1 ELSE hi - lo
            rd == IF hi = lo THEN 1 ELSE weights.den
            rnd(i) == np_round(weights.vals[i] * 15 * rd, weights.den * rn, platform.tie)
            lev(i) == IF rnd(i) < 0 THEN 0 ELSE IF rnd(i) > 15 THEN 15 ELSE rnd(i)
            n == Size(weights)
            p == qresult.data.elems
        IN  /\ qresult.scale = Frac(rn, rd * 15)
            /\ qresult.zero_point = 0
            /\ quantized_float(weights, platform.tie) = [i \in 1..n |-> lev(i)]
            /\ \A j \in DOMAIN p :
                  /\ p[j] \in 0..255
                  /\ HighNibble(p[j]) \in 0..15 /\ LowNibble(p[j]) \in 0..15
            /\ \A j \in 1..(n \div 2) :
                  /\ HighNibble(p[j]) = lev(2 * j - 1)
                  /\ LowNibble(p[j]) = lev(2 * j)

\* a pair was packed whose second level needed the clamp: unclamped it would
\* have carried into the high nibble
C11_Witness ==
    /\ bits = 4 /\ Returned /\ Size(weights) >= 2
    /\ level_of(weights, 15, 1, platform.tie) \in 0..15
    /\ level_of(weights, 15, 2, platform.tie) > 15
    /\ qresult.data.elems[1] = level_of(weights, 15, 1, platform.tie) * 16 + 15

\* np.frombuffer(bytes, dtype = np.float32): every four bytes that are the
\* encoding of one number, in order, give that number back
Decodable32(bytes) ==
    /\ Len(bytes) % 4 = 0
    /\ \A j \in DOMAIN bytes :
          /\ bytes[j].k = "f32"
          /\ bytes[j].i = ((j - 1) % 4) + 1
          /\ bytes[j].v = bytes[j - ((j - 1) % 4)].v
          /\ bytes[j].d = bytes[j - ((j - 1) % 4)].d

Decode32(bytes) ==
    [e \in 1..(Len(bytes) \div 4) |-> <<bytes[4 * e - 3].v, bytes[4 * e - 3].d>>]

\* C12: for every tensor, quantization at 32 bits returns the original element
\* values in the original order as 32-bit floats (the payload bytes decode to
\* the input values), with scale = 1.0 and zero_point = 0.
C12_Passthrough32 ==
    (bits = 32 /\ Finished) =>
        /\ Returned
        /\ qresult.data.dtype = "float32"
        /\ qresult.data.elems = weights.vals
        /\ qresult.data.den = weights.den
        /\ LET payload == tobytes(qresult.data)
           IN  /\ Len(payload) = 4 * Size(weights)
               /\ Decodable32(payload)
               /\ Decode32(payload) =
                     [i \in 1..Size(weights) |-> Frac(weights.vals[i], weights.den)]
        /\ qresult.scale = <<1, 1>>
        /\ qresult.zero_point = 0

\* a tensor of rank 2 with two different non-zero values went through
C12_Witness ==
    /\ bits = 32 /\ Returned
    /\ Len(weights.shape) = 2 /\ Size(weights) >= 2
    /\ weights.vals[1] # weights.vals[2]
    /\ weights.vals[1] # 0 /\ weights.vals[2] # 0

\* C27: for every non-empty tensor quantized at 8 bits, each level
\* round(value / scale + zero_point) lies in 0..255 before it is converted to
\* an unsigned 8-bit integer, so the conversion never wraps or truncates a
\* level: the stored element is the level.
C27_Levels8InRange ==
    (bits = 8 /\ Size(weights) > 0 /\ Returned) =>
        \A i \in DOMAIN weights.vals :
            /\ level_of(weights, 255, i, platform.tie) \in 0..255
            /\ qresult.data.elems[i] = level_of(weights, 255, i, platform.tie)

-----------------------------------------------------------------------------
(* Claims about _prune_weights, checked under PSpec *)

Pruned == presult.status = "ok"

PruneFinished == presult.status # "pending"

\* |element i of w| <= th
AtMost(w, i, th) == Abs(w.vals[i]) * th[2] <= th[1] * w.den

C17_PruneTotal ==
    PruneFinished =>
        /\ Pruned
        /\ threshold[1] = 0 => presult.array.vals = weights.vals
        /\ (\A i \in DOMAIN weights.vals : AtMost(weights, i, threshold)) =>
              \A i \in DOMAIN weights.vals : presult.array.vals[i] = 0

-----------------------------------------------------------------------------
(* Claims about _apply_weight_clustering, checked under CSpec *)

ClusterFinished == cresult.status # "pending"

\* len(np.unique(flattened))
Distinct(w) == Cardinality(Range(w.vals))

-----------------------------------------------------------------------------
(* Claims about convert(), checked under Spec *)

\* _save_model returned False
SaveFailed == pc = "returned" /\ result.status = "empty"

\* C5: serialization is all-or-nothing: when writing either output file fails,
\* no metadata document of this run is left at the destination without its
\* matching blob.
C5_AllOrNothing ==
    SaveFailed => ~(files.json.state = "written" /\ files.bin.state # "written")

\* the configuration is one the converter documents (lines 38-41)
ConfigValid ==
    /\ config.quantize_bits \in ValidBits
    /\ IsSet(config.weight_clustering) => config.weight_clustering[1] > 0

\* C6: under an invalid bit width or a cluster count <= 0 no tensor is ever
\* pruned, clustered or quantized: the configuration is rejected first.
C6_RejectedBeforeProcessing ==
    ~ConfigValid =>
        \A j \in DOMAIN log : log[j].op \notin {"prune", "cluster", "quantize"}

\* the loop of _save_model is running / has ended
Appending == pc = "append"

LoopDone == \E j \in DOMAIN log : log[j].op = "write_json"

\* the weight_info stored under (owner, role)
InfoOf(owner, role) == DictGet(DictGet(tinyai_model.weights, owner), role)

IsQuantized(info) == "scale" \in DOMAIN info /\ "zero_point" \in DOMAIN info

\* C7: the offset recorded for (owner, role) is the buffer length at the moment
\* just before the tensor's shape header is appended, so it addresses the first
\* byte of the shape header.
C7_OffsetAtHeader ==
    [][ (Len(weight_offsets') = Len(weight_offsets) + 1) =>
          LET o == weight_offsets'[Len(weight_offsets')]
              hdr == pack_shape(InfoOf(o.owner, o.role).shape)
          IN  /\ o.offset = Len(weight_data)
              /\ SubSeq(weight_data', o.offset + 1, o.offset + Len(hdr)) = hdr
              /\ \A j \in DOMAIN weight_offsets : weight_offsets'[j] = weight_offsets[j]
      ]_vars

\* a second tensor of rank >= 1 with quantization parameters was appended
C7_Witness ==
    /\ pc = "append" /\ Len(weight_offsets) >= 2
    /\ LET o == weight_offsets[2]
       IN  /\ o.offset > 0
           /\ Len(InfoOf(o.owner, o.role).shape) >= 1
           /\ IsQuantized(InfoOf(o.owner, o.role))

\* the payload length the declared shape and bit width imply
ImpliedPayloadLen(info) ==
    LET n == SeqProd(info.shape)
    IN  IF ~IsQuantized(info) THEN 4 * n
        ELSE CASE info.bits = 32 -> 4 * n
               [] info.bits = 16 -> 2 * n
               [] info.bits = 8  -> n
               [] info.bits = 4  -> (n + 1) \div 2

\* the end of the byte range of the j-th offset: the next offset, or the blob's end
RangeEnd(j) ==
    IF j < Len(weight_offsets) THEN weight_offsets[j + 1].offset ELSE Len(weight_data)

\* C8: the bytes from a tensor's offset to the next offset (the end of the blob
\* for the last one) are rank 32-bit shape integers, then scale, zero_point and
\* bits as three 4-byte fields if the tensor carries scale and zero_point, then
\* the payload; the range is 4*rank + (12 or 0) + the implied payload length long.
C8_RecordLayout ==
    (Appending \/ LoopDone) =>
        \A j \in DOMAIN weight_offsets :
            LET o == weight_offsets[j]
                info == InfoOf(o.owner, o.role)
                rank == Len(info.shape)
                q == IsQuantized(info)
                bytes == SubSeq(weight_data, o.offset + 1, RangeEnd(j))
                hdr == Concat([d \in 1..rank |-> pack_i(info.shape[d])])
                par == IF q THEN pack_f(info.scale) \o pack_i(info.zero_point)
                                   \o pack_i(info.bits)
                       ELSE <<>>
            IN  /\ bytes = hdr \o par \o tobytes(info.data)
                /\ Len(hdr) = 4 * rank
                /\ Len(par) = IF q THEN 12 ELSE 0
                /\ RangeEnd(j) - o.offset =
                      4 * rank + (IF q THEN 12 ELSE 0) + ImpliedPayloadLen(info)

\* the blob holds a quantized and an unquantized record
C8_Witness ==
    /\ pc = "write_bin"
    /\ \E j \in DOMAIN weight_offsets :
          IsQuantized(InfoOf(weight_offsets[j].owner, weight_offsets[j].role))
    /\ \E j \in DOMAIN weight_offsets :
          ~IsQuantized(InfoOf(weight_offsets[j].owner, weight_offsets[j].role))

\* the length of the record of a weight_info
RecordLen(info) ==
    4 * Len(info.shape) + (IF IsQuantized(info) THEN 12 ELSE 0) + nbytes(info.data)

\* C9: the offset index follows the write order: the first tensor written has
\* offset 0, offsets strictly increase in write order, each record starts where
\* the previous one ends, and the blob length is the sum of the record lengths.
C9_WriteOrder ==
    (Appending \/ LoopDone) =>
        LET es == Entries(tinyai_model.weights)
            k == Len(weight_offsets)
        IN  /\ k <= Len(es)
            /\ \A j \in 1..k : /\ weight_offsets[j].owner = es[j].owner
                               /\ weight_offsets[j].role = es[j].role
            /\ k >= 1 => weight_offsets[1].offset = 0
            /\ \A j \in 1..(k - 1) :
                  /\ weight_offsets[j].offset < weight_offsets[j + 1].offset
                  /\ weight_offsets[j + 1].offset =
                        weight_offsets[j].offset + RecordLen(es[j].info)
            /\ Len(weight_data) = SeqSum([j \in 1..k |-> RecordLen(es[j].info)])
            /\ LoopDone => k = Len(es)

\* two tensors were written and the blob is complete
C9_Witness ==
    /\ pc = "write_bin" /\ Len(weight_offsets) >= 2
    /\ weight_offsets[2].offset > 0

\* the data of a weight_info is what quantization at width b leaves
DataAtWidth(info, b) ==
    LET n == SeqProd(info.shape)
    IN  CASE b = 32 -> info.data.dtype = "float32" /\ Len(info.data.elems) = n
          [] b = 16 -> info.data.dtype = "float16" /\ Len(info.data.elems) = n
          [] b = 8  -> info.data.dtype = "uint8" /\ Len(info.data.elems) = n
          [] b = 4  -> info.data.dtype = "uint8" /\ Len(info.data.elems) = (n + 1) \div 2
          [] OTHER  -> FALSE

\* C13: a weight-role tensor is quantized at the configured width; a bias-role
\* tensor is quantized at 8 bits when mixed precision is enabled, whatever the
\* configured width, and at the configured width when it is disabled.
C13_WidthByRole ==
    \A j \in DOMAIN Entries(processed_weights) :
        LET e == Entries(processed_weights)[j]
        IN  /\ HasWeight(e.role) =>
                  /\ e.info.bits = config.quantize_bits
                  /\ DataAtWidth(e.info, config.quantize_bits)
            /\ (HasBias(e.role) /\ config.mixed_precision) =>
                  /\ e.info.bits = 8
                  /\ DataAtWidth(e.info, 8)
            /\ (HasBias(e.role) /\ ~config.mixed_precision) =>
                  /\ e.info.bits = config.quantize_bits
                  /\ DataAtWidth(e.info, config.quantize_bits)

\* under mixed precision a bias was stored at 8 bits next to a weight stored at
\* the configured 4 bits
C13_Witness ==
    /\ config.mixed_precision /\ config.quantize_bits = 4
    /\ \E i, j \in DOMAIN Entries(processed_weights) :
          /\ HasBias(Entries(processed_weights)[i].role)
          /\ Entries(processed_weights)[i].info.bits = 8
          /\ Len(Entries(processed_weights)[i].info.data.elems) = 3
          /\ HasWeight(Entries(processed_weights)[j].role)
          /\ Entries(processed_weights)[j].info.bits = 4
          /\ Len(Entries(processed_weights)[j].info.data.elems) = 2

\* the role is neither weight nor bias
OtherRole(role) == ~HasWeight(role) /\ ~HasBias(role)

\* C14: a tensor whose role is neither weight nor bias is never quantized: its
\* weight-store entry has no scale, zero_point or bits, its data is kept at the
\* native 32-bit float precision, and its record in the blob is the shape
\* header followed directly by the payload, with no 12-byte parameter block.
C14_OtherRoleRaw ==
    /\ \A j \in DOMAIN Entries(processed_weights) :
          LET e == Entries(processed_weights)[j]
          IN  OtherRole(e.role) =>
                  /\ DOMAIN e.info = {"data", "shape"}
                  /\ e.info.data.dtype = "float32"
                  /\ Len(e.info.data.elems) = SeqProd(e.info.shape)
    /\ (Appending \/ LoopDone) =>
          \A j \in DOMAIN weight_offsets :
              LET o == weight_offsets[j]
                  info == InfoOf(o.owner, o.role)
                  bytes == SubSeq(weight_data, o.offset + 1, RangeEnd(j))
              IN  OtherRole(o.role) =>
                      /\ bytes = pack_shape(info.shape) \o tobytes(info.data)
                      /\ Len(bytes) = 4 * Len(info.shape) + 4 * SeqProd(info.shape)
                      /\ \A b \in 1..Len(bytes) :
                            b > 4 * Len(info.shape) => bytes[b].k = "f32"

\* the blob holds the record of a non-empty tensor of another role, after
\* pruning and clustering were applied to it
C14_Witness ==
    /\ pc = "write_bin"
    /\ IsSet(config.prune_threshold) /\ IsSet(config.weight_clustering)
    /\ \E j \in DOMAIN weight_offsets :
          /\ OtherRole(weight_offsets[j].role)
          /\ Len(InfoOf(weight_offsets[j].owner, weight_offsets[j].role).shape) >= 1
          /\ SeqProd(InfoOf(weight_offsets[j].owner, weight_offsets[j].role).shape) >= 2

\* C15: every weight-role or bias-role entry of the weight store carries both
\* scale and zero_point; zero_point is 0 for every entry at every bit width,
\* and scale is exactly 1.0 whenever bits is 32 or 16.
C15_ScaleZeroPoint ==
    \A j \in DOMAIN Entries(processed_weights) :
        LET e == Entries(processed_weights)[j]
        IN  /\ (HasWeight(e.role) \/ HasBias(e.role)) =>
                  /\ "scale" \in DOMAIN e.info
                  /\ "zero_point" \in DOMAIN e.info
                  /\ "bits" \in DOMAIN e.info
                  /\ e.info.bits \in {32, 16} => e.info.scale = <<1, 1>>
            /\ "zero_point" \in DOMAIN e.info => e.info.zero_point = 0

\* the store holds a weight at 16 bits with scale 1.0 next to a bias at 8 bits
\* whose scale is a real one
C15_Witness ==
    \E i, j \in DOMAIN Entries(processed_weights) :
        /\ HasWeight(Entries(processed_weights)[i].role)
        /\ Entries(processed_weights)[i].info.bits = 16
        /\ Entries(processed_weights)[i].info.scale = <<1, 1>>
        /\ HasBias(Entries(processed_weights)[j].role)
        /\ Entries(processed_weights)[j].info.bits = 8
        /\ Entries(processed_weights)[j].info.scale # <<1, 1>>
        /\ Entries(processed_weights)[j].info.zero_point = 0

\* _save_model ran its loop over a weight store without entries
EmptyStoreSaved == LoopDone /\ tinyai_model.weights = <<>>

\* C19: an empty weight store serializes successfully to a binary blob of
\* length 0 and a metadata document whose offset index is an empty mapping.
C19_EmptyStore ==
    EmptyStoreSaved =>
        /\ weight_data = <<>>
        /\ weight_offsets = <<>>
        /\ files.json.state = "written" =>
              /\ "weight_offsets" \in DOMAIN files.json.content
              /\ files.json.content.weight_offsets = <<>>
        /\ files.bin.state = "written" => Len(files.bin.content) = 0
        /\ (pc \in {"stats", "returned"} /\ ~SaveFailed) =>
              files.json.state = "written" /\ files.bin.state = "written"

\* both files of an empty store were written and convert() returned statistics
C19_Witness ==
    /\ EmptyStoreSaved
    /\ pc = "returned" /\ result.status = "stats"
    /\ files.json.state = "written" /\ files.json.content.weight_offsets = <<>>
    /\ files.bin.state = "written" /\ files.bin.content = <<>>

\* the bytes of a record that are not payload: shape header and parameter block
HeaderLen(info) == 4 * Len(info.shape) + (IF IsQuantized(info) THEN 12 ELSE 0)

\* C20: the reported compression_ratio equals original_size_bytes /
\* converted_size_bytes whenever converted_size_bytes > 0 and equals 0, with no
\* error, when converted_size_bytes is 0; converted_size_bytes is the sum of
\* the payload lengths of all weight-store entries, headers excluded.
C20_CompressionRatio ==
    result.status = "stats" =>
        LET st == result.stats
            es == Entries(processed_weights)
            payloads == SeqSum([j \in DOMAIN es |-> Len(tobytes(es[j].info.data))])
            headers == SeqSum([j \in DOMAIN es |-> HeaderLen(es[j].info)])
        IN  /\ st.converted_size_bytes = payloads
            /\ st.converted_size_bytes = Len(files.bin.content) - headers
            /\ st.converted_size_bytes > 0 =>
                  /\ st.compression_ratio[2] > 0
                  /\ st.compression_ratio[1] * st.converted_size_bytes =
                        st.original_size_bytes * st.compression_ratio[2]
            /\ st.converted_size_bytes = 0 => st.compression_ratio = <<0, 1>>

\* statistics were returned for a store whose only payloads are empty while
\* the blob holds its headers: the converted size is 0 and so is the ratio
C20_Witness ==
    /\ result.status = "stats"
    /\ processed_weights # <<>>
    /\ Len(files.bin.content) > 0
    /\ result.stats.converted_size_bytes = 0
    /\ result.stats.compression_ratio = <<0, 1>>

\* _save_model reached its file writes and convert() ended with an output file
\* not written
WriteFailed ==
    /\ pc = "returned" /\ LoopDone
    /\ (files.json.state # "written" \/ files.bin.state # "written")

\* C21: when writing an output file fails, the caller of convert() receives an
\* error outcome that carries the underlying cause, not a cause-less empty
\* result, and no statistics are computed for that run.
C21_IoErrorCause ==
    WriteFailed =>
        /\ result.status = "raise"
        /\ "error" \in DOMAIN result
        /\ \A j \in DOMAIN log : log[j].op # "stats"

\* _create_tinyai_model returned
Built == \E j \in DOMAIN log : log[j].op = "build"

\* C22: the built artifact's metadata always contains the configured bit
\* width and the mixed-precision flag; it contains a pruning threshold entry
\* if and only if a pruning threshold is configured, and a cluster-count entry
\* if and only if a cluster count is configured, each equal to the configured
\* value.
C22_MetadataConfig ==
    Built =>
        LET md == tinyai_model.metadata
        IN  /\ md.quantization.bits = config.quantize_bits
            /\ md.quantization.mixed_precision = config.mixed_precision
            /\ ("pruning" \in DOMAIN md) <=> IsSet(config.prune_threshold)
            /\ "pruning" \in DOMAIN md =>
                  md.pruning.threshold = config.prune_threshold[1]
            /\ ("clustering" \in DOMAIN md) <=> IsSet(config.weight_clustering)
            /\ "clustering" \in DOMAIN md =>
                  md.clustering.num_clusters = config.weight_clustering[1]

\* an artifact was built under mixed precision with a pruning threshold and
\* without a cluster count
C22_Witness ==
    /\ Built /\ pc = "save"
    /\ config.mixed_precision /\ config.quantize_bits = 8
    /\ IsSet(config.prune_threshold) /\ ~IsSet(config.weight_clustering)
    /\ "pruning" \in DOMAIN tinyai_model.metadata
    /\ "clustering" \notin DOMAIN tinyai_model.metadata
    /\ tinyai_model.weights # <<>>

\* the (owner, role) keys of a weight store / of an offset index
StoreKeys(pw) == {<<Entries(pw)[j].owner, Entries(pw)[j].role>> : j \in DOMAIN Entries(pw)}

OffsetKeys(offsets) == {<<offsets[j].owner, offsets[j].role>> : j \in DOMAIN offsets}

\* C23: serialization does not mutate the model artifact: after _save_model
\* the artifact still has its weights and has gained no offset-index key; the
\* emitted metadata document has exactly the artifact's top-level keys other
\* than the weights, with their values, plus the offset index; and the offset
\* index has exactly the (owner, role) keys of the weight store.
C23_ArtifactUnchanged ==
    /\ LoopDone =>
          /\ "weights" \in DOMAIN tinyai_model
          /\ "weight_offsets" \notin DOMAIN tinyai_model
          /\ tinyai_model.weights = processed_weights
          /\ tinyai_model = create_tinyai_model(config, processed_weights)
    /\ (LoopDone /\ files.json.state = "written") =>
          LET doc == files.json.content
          IN  /\ DOMAIN doc = (DOMAIN tinyai_model \ {"weights"}) \cup {"weight_offsets"}
              /\ \A key \in DOMAIN tinyai_model \ {"weights"} : doc[key] = tinyai_model[key]
              /\ OffsetKeys(doc.weight_offsets) = StoreKeys(tinyai_model.weights)
              /\ Len(doc.weight_offsets) = Len(Entries(tinyai_model.weights))

\* _save_model returned True for an artifact with two weight-store entries
C23_Witness ==
    /\ pc = "stats"
    /\ files.json.state = "written" /\ files.bin.state = "written"
    /\ Len(Entries(tinyai_model.weights)) = 2
    /\ Len(files.json.content.weight_offsets) = 2

\* the position of a stage in the pipeline
StageRank(op) ==
    CASE op = "prune"      -> 1
      [] op = "cluster"    -> 2
      [] op = "quantize"   -> 3
      [] op = "build"      -> 4
      [] op = "serialize"  -> 5
      [] op = "write_json" -> 6
      [] op = "write_bin"  -> 7
      [] op = "stats"      -> 8

TensorStage(e) == e.op \in {"prune", "cluster", "quantize"}

HasEvent(op) == \E j \in DOMAIN log : log[j].op = op

\* the parameter at index i is one _process_weights does not skip
Processed(i) == params[i].requires_grad \/ config.verbose

\* C24: stages run strictly downstream: for each tensor, pruning (if
\* configured) happens before clustering (if configured), which happens before
\* quantization; the artifact is built only after every tensor is processed,
\* serialization starts only after the artifact is built, and statistics are
\* gathered only after serialization has succeeded.
C24_StageOrder ==
    /\ \A j \in DOMAIN log :
          j < Len(log) =>
             LET k == j + 1     \* the order is transitive
             IN  /\ (TensorStage(log[j]) /\ TensorStage(log[k])) =>
                       \/ log[j].i < log[k].i
                       \/ /\ log[j].i = log[k].i
                          /\ StageRank(log[j].op) < StageRank(log[k].op)
                 /\ ~(TensorStage(log[j]) /\ TensorStage(log[k])) =>
                       StageRank(log[j].op) < StageRank(log[k].op)
    /\ HasEvent("build") =>
          \A i \in DOMAIN params :
              Processed(i) =>
                  /\ <<module_name(params[i].name), param_type(params[i].name)>>
                        \in StoreKeys(processed_weights)
                  /\ IsSet(config.prune_threshold) =>
                        \E j \in DOMAIN log : log[j] = Event("prune", i)
                  /\ IsSet(config.weight_clustering) =>
                        \E j \in DOMAIN log : log[j] = Event("cluster", i)
    /\ HasEvent("serialize") => HasEvent("build")
    /\ HasEvent("stats") =>
          /\ HasEvent("write_json") /\ HasEvent("write_bin")
          /\ files.json.state = "written" /\ files.bin.state = "written"

\* statistics were returned for a run that pruned, clustered and quantized two
\* tensors
C24_Witness ==
    /\ result.status = "stats"
    /\ \A i \in 1..2 : \A op \in {"prune", "cluster", "quantize"} :
          \E j \in DOMAIN log : log[j] = Event(op, i)

\* the weight store as a function of the extracted tensors and the
\* configuration: the first n tensors of ps processed on the build plat
RECURSIVE StoreOf(_, _, _, _)
StoreOf(ps, n, cfg, plat) ==
    IF n = 0 THEN <<>>
    ELSE LET before == StoreOf(ps, n - 1, cfg, plat)
             p == ps[n]
         IN  IF ~p.requires_grad /\ ~cfg.verbose THEN before
             ELSE store_weight(before, module_name(p.name), param_type(p.name),
                               process_param(p, cfg, plat).info)

\* the blob and the offset index as a function of the weight store
RECURSIVE BlobOf(_, _)
BlobOf(es, n) ==
    IF n = 0 THEN [data |-> <<>>, offsets |-> <<>>]
    ELSE LET before == BlobOf(es, n - 1)
         IN  save_append(before.data, before.offsets, es[n])

KeyOf(i) == <<module_name(params[i].name), param_type(params[i].name)>>

\* C28: every extracted tensor ends up under its own (owner, role) key: the
\* name splitting never maps two distinct extracted tensors to the same key,
\* so no tensor is overwritten and the number of weight-store entries (and of
\* offsets) equals the number of tensors processed.
C28_UniqueKeys ==
    LET done == {i \in DOMAIN params : Processed(i)}
    IN  /\ Built =>
              /\ \A i, j \in done : i # j => KeyOf(i) # KeyOf(j)
              /\ Len(Entries(processed_weights)) = Cardinality(done)
        /\ LoopDone => Len(weight_offsets) = Cardinality(done)

\* the width the quantizer was called with, read off what it returned: the
\* element type for 32 and 16 bits; for the integer widths the payload length
\* (n bytes at 8 bits, ceil(n/2) at 4) and, for a single element, the scale
\* (1/255 at 8 bits, 1/15 at 4); 0 if the data fits no width
UsedWidth(info) ==
    LET n == SeqProd(info.shape)
        len == Len(info.data.elems)
    IN  CASE info.data.dtype = "float32" -> 32
          [] info.data.dtype = "float16" -> 16
          [] info.data.dtype = "uint8" /\ n >= 2 /\ len = n -> 8
          [] info.data.dtype = "uint8" /\ n >= 2 /\ len = (n + 1) \div 2 -> 4
          [] info.data.dtype = "uint8" /\ n = 1 /\ info.scale = <<1, 255>> -> 8
          [] info.data.dtype = "uint8" /\ n = 1 /\ info.scale = <<1, 15>> -> 4
          [] OTHER -> 0

\* C29: for every weight-role or bias-role entry, the bits value stored in the
\* weight store and written into the blob header equals the bit width that was
\* passed to the quantizer for that tensor's payload, in mixed-precision and in
\* non-mixed mode.
C29_StoredBits ==
    /\ \A j \in DOMAIN Entries(processed_weights) :
          LET e == Entries(processed_weights)[j]
          IN  (HasWeight(e.role) \/ HasBias(e.role)) =>
                  /\ UsedWidth(e.info) \in ValidBits
                  /\ e.info.bits = UsedWidth(e.info)
    /\ (Appending \/ LoopDone) =>
          \A j \in DOMAIN weight_offsets :
              LET o == weight_offsets[j]
                  info == InfoOf(o.owner, o.role)
                  at == o.offset + 4 * Len(info.shape) + 8
              IN  (HasWeight(o.role) \/ HasBias(o.role)) =>
                      SubSeq(weight_data, at + 1, at + 4) = pack_i(UsedWidth(info))

\* under mixed precision and a configured width of 4 the blob holds a bias
\* record quantized at 8 bits
C29_Witness ==
    /\ pc = "write_bin"
    /\ config.mixed_precision /\ config.quantize_bits = 4
    /\ \E j \in DOMAIN weight_offsets :
          /\ HasBias(weight_offsets[j].role)
          /\ InfoOf(weight_offsets[j].owner, weight_offsets[j].role).bits = 8
          /\ Len(InfoOf(weight_offsets[j].owner, weight_offsets[j].role).data.elems) = 3

\* parameter i went through the loop body, no other parameter shares its key,
\* and its entry is in the weight store
StoredAlone(i) ==
    /\ Processed(i)
    /\ i < idx \/ pc # "process"
    /\ \A j \in DOMAIN params : j # i => KeyOf(j) # KeyOf(i)
    /\ KeyOf(i) \in StoreKeys(processed_weights)

StoredInfo(i) ==
    LET es == Entries(processed_weights)
    IN  es[CHOOSE j \in DOMAIN es : <<es[j].owner, es[j].role>> = KeyOf(i)].info

\* C30: pruning and clustering, when configured, are applied to every extracted
\* tensor regardless of role: for a tensor whose role is neither weight nor
\* bias only quantization is skipped, and the data stored for it is the pruned
\* and clustered array, not the original values.
C30_PruneClusterEveryRole ==
    \A i \in DOMAIN params :
        (OtherRole(param_type(params[i].name)) /\ StoredAlone(i)) =>
            LET a == params[i].array
                th == config.prune_threshold
                k == config.weight_clustering
                data == StoredInfo(i).data
                pr == IF IsSet(th) THEN prune_weights(a, th[1])
                      ELSE [status |-> "ok", array |-> a]
                cl == IF pr.status = "ok" /\ IsSet(k)
                      THEN apply_weight_clustering(pr.array, k[1]) ELSE pr
            IN  /\ pr.status = "ok" /\ cl.status = "ok"
                /\ data.elems = cl.array.vals /\ data.den = cl.array.den
                /\ StoredInfo(i).shape = a.shape
                /\ (IsSet(th) /\ ~IsSet(k)) =>
                      \A p \in DOMAIN a.vals :
                          data.elems[p] = IF AtMost(a, p, th[1]) THEN 0 ELSE a.vals[p]
                /\ IsSet(k) => Cardinality(Range(data.elems)) <= k[1]
                /\ (~IsSet(th) /\ ~IsSet(k)) => data.elems = a.vals /\ data.den = a.den

\* a tensor of another role with three distinct values is stored with two:
\* pruned at 1/2 and fitted to two clusters
C30_Witness ==
    /\ pc = "write_bin"
    /\ config.prune_threshold = Some(<<1, 2>>)
    /\ config.weight_clustering = Some(2)
    /\ \E i \in DOMAIN params :
          /\ OtherRole(param_type(params[i].name)) /\ StoredAlone(i)
          /\ params[i].array.vals = <<-2, 1, 2>>
          /\ Cardinality(Range(StoredInfo(i).data.elems)) = 2
          /\ KeyOf(i) \in OffsetKeys(weight_offsets)

-----------------------------------------------------------------------------
(* Claims about the command-line tool, checked under MSpec *)

\* C26: setting precedence is command line over environment over default: when
\* --quantize is not given the converter is constructed with the value of
\* TINYAI_QUANTIZE_BITS if that variable holds a valid integer, and with the
\* default 4 otherwise; a command-line value wins when given.
C26_SettingPrecedence ==
    pc = "constructed" =>
        config.quantize_bits =
            IF IsSet(argv.quantize) THEN int_text(argv.quantize[1]).val
            ELSE IF IsSet(environ.TINYAI_QUANTIZE_BITS)
                      /\ int_text(environ.TINYAI_QUANTIZE_BITS[1]).ok
                 THEN int_text(environ.TINYAI_QUANTIZE_BITS[1]).val
                 ELSE 4

====
